---- MODULE Spec2Model ----
(***************************************************************************)
(* Breakout: the simulation core of GameCanvas (state machine, per-frame   *)
(* tick, collision helpers, entity factories) together with the part of    *)
(* the App shell that mirrors the core's statistics.                       *)
(*                                                                         *)
(* Arithmetic.  The code works in floating point; the model works in       *)
(* fixed point so that every quantity of a tick is an exact integer:       *)
(*   - time is counted in units of 1/UnitHz s,                             *)
(*   - lengths are counted in 1/UnitHz pixel, so that one time unit moves  *)
(*     the ball by velocity (px/s) length units,                           *)
(*   - the combo multiplier is counted in 1/(2*UnitHz),                    *)
(*   - a particle's life is counted in 2/UnitHz.                           *)
(* The display is taken to deliver a frame every 1/30 s, so that every     *)
(* tick runs with the clamped step.                                        *)
(* Math.sin / Math.cos are Bhaskara's rational approximation on an angle   *)
(* in thousandths of pi, Math.sqrt is the integer square root.             *)
(* A particle's position, velocity and size are drawn from Math.random     *)
(* and only painted; the model keeps a particle's id, colour and life.     *)
(***************************************************************************)
EXTENDS Integers, Sequences, FiniteSets, TLC

VARIABLES width, height,     \* props of GameCanvas, in pixels
          gameState,         \* useState<GameState>
          ball,              \* useState<Ball>
          paddle,            \* useState<Paddle>
          comboMultiplier,   \* useState(1)
          comboTimer,        \* useState(0)
          elapsed,           \* currentTime - lastTimeRef.current, saturated at the clamp
          timers,            \* pending setTimeout callbacks of handleClick / handleTouchTap
          gameStats,         \* App: useState gameStats (the shell's copy)
          highScore,         \* App: useState highScore
          localStorage,      \* the item 'breakout-highscore' of localStorage
          touchStartXRef,    \* useRef(0): clientX of the last touchstart
          lastTouchXRef,     \* useRef(0): clientX of the last touchstart or touchmove
          isTouchingRef,     \* useRef(false)
          farthest,          \* history: the largest |clientX - touchStartXRef| of the gesture
          cues,              \* audio cues emitted by the last step, in order
          ticks              \* history: number of ticks simulated so far

vars == <<width, height, gameState, ball, paddle, comboMultiplier, comboTimer,
          elapsed, timers, gameStats, highScore, localStorage, touchStartXRef,
          lastTouchXRef, isTouchingRef, farthest, cues, ticks>>

\* the refs of the touch handlers, with the history of the gesture
touchRefs == <<touchStartXRef, lastTouchXRef, isTouchingRef, farthest>>

\* the refs as useRef creates them
newTouchRefs ==
  /\ touchStartXRef = 0
  /\ lastTouchXRef = 0
  /\ isTouchingRef = FALSE
  /\ farthest = 0

-----------------------------------------------------------------------------
(* Bounds of the model *)

\* the level counter is not incremented beyond MaxLevel
MaxLevel == 3

\* at most MaxTicks ticks are simulated in one behaviour
MaxTicks == 110

\* canvas sizes <<width, height>> offered as props: the smallest canvas the
\* shell hands down, a narrow one whose layout has two columns, and two whose
\* layouts have no column (column counts 0 and -1)
Sizes == { <<400, 400>>, <<156, 400>>, <<60, 400>>, <<16, 400>> }

-----------------------------------------------------------------------------
(* Program constants and units *)

MaxStepHz == 30                  \* deltaTime is clamped to 1/30 s
UnitHz == 2 * MaxStepHz          \* time units per second, length units per pixel
PX == UnitHz                     \* length units per pixel
MaxStep == UnitHz \div MaxStepHz \* the clamp, in time units
FramePeriod == MaxStep           \* the display delivers a frame every 1/30 s
TimeoutMs == 100                 \* setTimeout(..., 100)
TimeoutUnits == (TimeoutMs * UnitHz) \div 1000

BallRadius == 8
PaddleWidth == 120
PaddleHeight == 15
PaddleOffset == 60               \* paddle.y = height - 60
BallOffset == 150                \* ball.y = height - 150
BaseSpeed == 250
SpeedXIncrement == 25
SpeedYIncrement == 15
InitialLives == 3
ParticleCount == 8
PaletteSize == 15

ComboOne == 2 * UnitHz           \* multiplier 1.0
ComboMax == 3 * ComboOne         \* multiplier 3.0
ComboStep == ComboOne \div 10    \* + 0.1 per tick with a hit
ComboTimerFull == 2 * UnitHz     \* comboTimer = 2 (seconds)
LifeOne == UnitHz \div 2         \* particle life 1.0

Max(a, b) == IF a >= b THEN a ELSE b
Min(a, b) == IF a <= b THEN a ELSE b
Abs(a) == IF a >= 0 THEN a ELSE -a

\* Math.sqrt on non-negative integers, rounded down (Newton from above)
RECURSIVE SqrtIter(_, _)
SqrtIter(n, s) ==
  IF s * s <= n THEN s ELSE SqrtIter(n, (s + n \div s) \div 2)

Sqrt(n) == IF n = 0 THEN 0 ELSE SqrtIter(n, Min(n, 46340))

\* 1000 * sin(pi * a / 1000) for 0 <= a <= 1000 (Bhaskara I)
Sin1000(a) ==
  (16 * a * (1000 - a)) \div ((5000000 - 4 * a * (1000 - a)) \div 1000)

-----------------------------------------------------------------------------
(* utils/physics.ts *)

\* the test that takes a circle that touches the rectangle to be apart
checkCollisionStrict(ballPos, ballRadius, rectPos, rectWidth, rectHeight) ==
  LET closestX == Max(rectPos.x, Min(ballPos.x, rectPos.x + rectWidth))
      closestY == Max(rectPos.y, Min(ballPos.y, rectPos.y + rectHeight))
      distanceX == ballPos.x - closestX
      distanceY == ballPos.y - closestY
  IN  /\ Abs(distanceX) <= ballRadius
      /\ Abs(distanceY) <= ballRadius
      /\ distanceX * distanceX + distanceY * distanceY < ballRadius * ballRadius

checkCollision(ballPos, ballRadius, rectPos, rectWidth, rectHeight) ==
  LET closestX == Max(rectPos.x, Min(ballPos.x, rectPos.x + rectWidth))
      closestY == Max(rectPos.y, Min(ballPos.y, rectPos.y + rectHeight))
      distanceX == ballPos.x - closestX
      distanceY == ballPos.y - closestY
  IN  \* the two bounds keep the squares inside the integer range; each is
      \* implied by the comparison of the squares
      /\ Abs(distanceX) <= ballRadius
      /\ Abs(distanceY) <= ballRadius
      /\ distanceX * distanceX + distanceY * distanceY <= ballRadius * ballRadius

\* the comparison |ratioX| >= |ratioY|
getCollisionSideTieHorizontal(ballPos, ballRadius, rectPos, rectWidth, rectHeight) ==
  LET deltaX2 == 2 * ballPos.x - (2 * rectPos.x + rectWidth)
      deltaY2 == 2 * ballPos.y - (2 * rectPos.y + rectHeight)
      denX2 == rectWidth + 2 * ballRadius
      denY2 == rectHeight + 2 * ballRadius
  IN  IF Abs(deltaX2) * denY2 >= Abs(deltaY2) * denX2
      THEN (IF deltaX2 > 0 THEN "right" ELSE "left")
      ELSE (IF deltaY2 > 0 THEN "bottom" ELSE "top")

\* ratioX = deltaX / (rectWidth/2 + r), ratioY = deltaY / (rectHeight/2 + r);
\* |ratioX| > |ratioY| is compared after multiplying by both denominators
getCollisionSide(ballPos, ballRadius, rectPos, rectWidth, rectHeight) ==
  LET deltaX2 == 2 * ballPos.x - (2 * rectPos.x + rectWidth)
      deltaY2 == 2 * ballPos.y - (2 * rectPos.y + rectHeight)
      denX2 == rectWidth + 2 * ballRadius
      denY2 == rectHeight + 2 * ballRadius
  IN  IF Abs(deltaX2) * denY2 > Abs(deltaY2) * denX2
      THEN (IF deltaX2 > 0 THEN "right" ELSE "left")
      ELSE (IF deltaY2 > 0 THEN "bottom" ELSE "top")

\* the walls reflect the velocity and leave the position as integrated
updateBallPositionNoClamp(b, canvasWidth, canvasHeight, deltaTime) ==
  LET nx == b.position.x + b.velocity.x * deltaTime
      ny == b.position.y + b.velocity.y * deltaTime
      hitX == nx - b.radius <= 0 \/ nx + b.radius >= canvasWidth
      hitY == ny - b.radius <= 0
      newTrail == <<b.position>> \o SubSeq(b.trail, 1, Min(8, Len(b.trail)))
  IN  [b EXCEPT
         !.position = [x |-> nx, y |-> ny],
         !.velocity = [x |-> IF hitX THEN -b.velocity.x ELSE b.velocity.x,
                       y |-> IF hitY THEN -b.velocity.y ELSE b.velocity.y],
         !.trail = newTrail]

\* deltaTime in time units; canvasWidth, canvasHeight in length units
updateBallPosition(b, canvasWidth, canvasHeight, deltaTime) ==
  LET nx == b.position.x + b.velocity.x * deltaTime
      ny == b.position.y + b.velocity.y * deltaTime
      hitX == nx - b.radius <= 0 \/ nx + b.radius >= canvasWidth
      hitY == ny - b.radius <= 0
      newTrail == <<b.position>> \o SubSeq(b.trail, 1, Min(8, Len(b.trail)))
  IN  [b EXCEPT
         !.position = [x |-> IF hitX THEN Max(b.radius, Min(canvasWidth - b.radius, nx)) ELSE nx,
                       y |-> IF hitY THEN b.radius ELSE ny],
         !.velocity = [x |-> IF hitX THEN -b.velocity.x ELSE b.velocity.x,
                       y |-> IF hitY THEN -b.velocity.y ELSE b.velocity.y],
         !.trail = newTrail]

\* the deflection whose angle is measured from the paddle's left end
handlePaddleCollisionFromEdge(b, p) ==
  IF ~checkCollision(b.position, b.radius, p.position, p.width, p.height)
  THEN b
  ELSE LET off2 == 2 * (b.position.x - p.position.x)
           hitAngle == (300 * Abs(off2)) \div p.width
           speed == Sqrt(b.velocity.x * b.velocity.x + b.velocity.y * b.velocity.y)
           sinv == (Sin1000(hitAngle) * speed) \div 1000
           cosv == (Sin1000(500 - hitAngle) * speed) \div 1000
       IN  [b EXCEPT
              !.velocity = [x |-> IF off2 >= 0 THEN sinv ELSE -sinv,
                            y |-> -Abs(cosv)],
              !.position = [x |-> b.position.x,
                            y |-> p.position.y - b.radius - 1 * PX]]

\* the deflection that leaves the ball where it is
handlePaddleCollisionKeepPosition(b, p) ==
  IF ~checkCollision(b.position, b.radius, p.position, p.width, p.height)
  THEN b
  ELSE LET off2 == 2 * (b.position.x - p.position.x) - p.width
           hitAngle == (300 * Abs(off2)) \div p.width
           speed == Sqrt(b.velocity.x * b.velocity.x + b.velocity.y * b.velocity.y)
           sinv == (Sin1000(hitAngle) * speed) \div 1000
           cosv == (Sin1000(500 - hitAngle) * speed) \div 1000
       IN  [b EXCEPT
              !.velocity = [x |-> IF off2 >= 0 THEN sinv ELSE -sinv,
                            y |-> -Abs(cosv)]]

handlePaddleCollision(b, p) ==
  IF ~checkCollision(b.position, b.radius, p.position, p.width, p.height)
  THEN b
  ELSE LET \* hitAngle = (hitPos - 0.5) * 0.6 * pi, in thousandths of pi
           off2 == 2 * (b.position.x - p.position.x) - p.width
           hitAngle == (300 * Abs(off2)) \div p.width
           speed == Sqrt(b.velocity.x * b.velocity.x + b.velocity.y * b.velocity.y)
           sinv == (Sin1000(hitAngle) * speed) \div 1000
           cosv == (Sin1000(500 - hitAngle) * speed) \div 1000
       IN  [b EXCEPT
              !.velocity = [x |-> IF off2 >= 0 THEN sinv ELSE -sinv,
                            y |-> -Abs(cosv)],
              !.position = [x |-> b.position.x,
                            y |-> p.position.y - b.radius - 1 * PX]]

-----------------------------------------------------------------------------
(* utils/gameLogic.ts *)

\* the layout with at least one column
createBlocksAtLeastOneColumn(canvasWidth, lvl) ==
  LET isMobile == canvasWidth < 600
      blockWidth == IF isMobile THEN 45 ELSE 60
      blockHeight == IF isMobile THEN 20 ELSE 25
      padding == IF isMobile THEN 3 ELSE 4
      rows == Min(6 + lvl \div 2, IF isMobile THEN 6 ELSE 8)
      cols == Max(1, (canvasWidth - (IF isMobile THEN 20 ELSE 40)) \div (blockWidth + padding))
      startX2 == canvasWidth - (cols * (blockWidth + padding) - padding)
      n == rows * cols
  IN  [k \in 1..n |->
         LET row == (k - 1) \div cols
             col == (k - 1) % cols
         IN  [id |-> <<row, col>>,
              position |-> [x |-> (startX2 * PX) \div 2 + col * (blockWidth + padding) * PX,
                            y |-> ((IF isMobile THEN 60 ELSE 80) + row * (blockHeight + padding)) * PX],
              width |-> blockWidth * PX,
              height |-> blockHeight * PX,
              color |-> (row + col) % PaletteSize,
              destroyed |-> FALSE,
              points |-> (rows - row) * 10]]

\* canvasWidth in pixels; the blocks are returned in length units
createBlocks(canvasWidth, lvl) ==
  LET isMobile == canvasWidth < 600
      blockWidth == IF isMobile THEN 45 ELSE 60
      blockHeight == IF isMobile THEN 20 ELSE 25
      padding == IF isMobile THEN 3 ELSE 4
      rows == Min(6 + lvl \div 2, IF isMobile THEN 6 ELSE 8)
      cols == (canvasWidth - (IF isMobile THEN 20 ELSE 40)) \div (blockWidth + padding)
      startX2 == canvasWidth - (cols * (blockWidth + padding) - padding)
      n == IF cols <= 0 THEN 0 ELSE rows * cols
  IN  [k \in 1..n |->
         LET row == (k - 1) \div cols
             col == (k - 1) % cols
         IN  [id |-> <<row, col>>,
              position |-> [x |-> (startX2 * PX) \div 2 + col * (blockWidth + padding) * PX,
                            y |-> ((IF isMobile THEN 60 ELSE 80) + row * (blockHeight + padding)) * PX],
              width |-> blockWidth * PX,
              height |-> blockHeight * PX,
              color |-> (row + col) % PaletteSize,
              destroyed |-> FALSE,
              points |-> (rows - row) * 10]]

createParticles(color, count) ==
  [i \in 1..count |-> [id |-> i - 1, life |-> LifeOne, maxLife |-> LifeOne, color |-> color]]

\* the ageing that keeps the particles whose life has reached 0
updateParticlesKeepSpent(particles, deltaTime) ==
  LET aged == [i \in DOMAIN particles |->
                 [particles[i] EXCEPT !.life = particles[i].life - deltaTime]]
      alive(q) == q.life >= 0
  IN  SelectSeq(aged, alive)

\* life -= deltaTime * 2, then the particles with life <= 0 are dropped
updateParticles(particles, deltaTime) ==
  LET aged == [i \in DOMAIN particles |->
                 [particles[i] EXCEPT !.life = particles[i].life - deltaTime]]
      alive(q) == q.life > 0
  IN  SelectSeq(aged, alive)

\* the score at the multiplier as the hit leaves it
calculateScoreAfterIncrement(blockPoints, combo) ==
  (blockPoints * Min(combo + ComboStep, ComboMax)) \div ComboOne

\* Math.floor(blockPoints * comboMultiplier), multiplier in 1/ComboOne
calculateScore(blockPoints, combo) == (blockPoints * combo) \div ComboOne

-----------------------------------------------------------------------------
(* components/GameCanvas.tsx: state *)

W == width * PX
H == height * PX

StartPosition == [x |-> W \div 2, y |-> (height - BallOffset) * PX]

NewBall(vx, vy) ==
  [position |-> StartPosition,
   velocity |-> [x |-> vx, y |-> vy],
   radius |-> BallRadius * PX,
   trail |-> <<>>]

NewPaddle ==
  [position |-> [x |-> W \div 2 - 60 * PX, y |-> (height - PaddleOffset) * PX],
   width |-> PaddleWidth * PX,
   height |-> PaddleHeight * PX,
   velocity |-> 0]

blocksRemaining(gs) == Cardinality({i \in DOMAIN gs.blocks : ~gs.blocks[i].destroyed})

\* Number.prototype.toString: the decimal digits of a score, most significant
\* first
RECURSIVE toString(_)
toString(n) == IF n < 10 THEN <<n>> ELSE toString(n \div 10) \o <<n % 10>>

\* parseInt of a string of decimal digits that is not empty
RECURSIVE parseInt(_)
parseInt(s) ==
  IF Len(s) = 1 THEN s[1]
  ELSE 10 * parseInt(SubSeq(s, 1, Len(s) - 1)) + s[Len(s)]

\* localStorage.getItem of an item that was never set: null
Absent == [present |-> FALSE, value |-> <<>>]

\* the initializer of highScore: saved ? parseInt(saved) : 0, null and the
\* empty string being falsy
loadHighScore(saved) ==
  IF saved.present /\ saved.value # <<>> THEN parseInt(saved.value) ELSE 0

\* the effect that also stores a score that equals the high score
highScoreEffectOnEqual ==
  /\ highScore' = IF gameStats'.score >= highScore THEN gameStats'.score ELSE highScore
  /\ localStorage' = IF gameStats'.score >= highScore
                     THEN [present |-> TRUE, value |-> toString(gameStats'.score)]
                     ELSE localStorage

\* App's effect on [gameStats.score, highScore]: a higher score becomes the
\* high score and is written to localStorage
highScoreEffect ==
  /\ highScore' = IF gameStats'.score > highScore THEN gameStats'.score ELSE highScore
  /\ localStorage' = IF gameStats'.score > highScore
                     THEN [present |-> TRUE, value |-> toString(gameStats'.score)]
                     ELSE localStorage

\* the effect that reports gameState to the shell, and App.handleGameStatsUpdate
handleGameStatsUpdate(gs) ==
  [score |-> gs.score,
   level |-> gs.level,
   lives |-> gs.lives,
   blocksRemaining |-> blocksRemaining(gs),
   gameStatus |-> gs.gameStatus]

Init ==
  /\ \E size \in Sizes : width = size[1] /\ height = size[2]
  /\ gameState = [score |-> 0, level |-> 1, lives |-> InitialLives,
                  blocks |-> <<>>, particles |-> <<>>, gameStatus |-> "menu"]
  /\ ball = NewBall(BaseSpeed, -BaseSpeed)
  /\ paddle = NewPaddle
  /\ comboMultiplier = ComboOne
  /\ comboTimer = 0
  /\ elapsed = MaxStep
  /\ timers = <<>>
  /\ gameStats = handleGameStatsUpdate(gameState)
  /\ localStorage = Absent
  /\ highScore = loadHighScore(localStorage)
  /\ newTouchRefs
  /\ cues = <<>>
  /\ ticks = 0

-----------------------------------------------------------------------------
(* components/GameCanvas.tsx: handlers *)

initializeGameKeepParticles(lvl) ==
  /\ gameState' = [gameState EXCEPT !.blocks = createBlocks(width, lvl),
                                    !.gameStatus = "playing"]
  /\ ball' = NewBall(BaseSpeed + lvl * SpeedXIncrement, -BaseSpeed - lvl * SpeedYIncrement)
  /\ paddle' = NewPaddle
  /\ comboMultiplier' = ComboOne
  /\ comboTimer' = 0
  /\ cues' = <<"gameStart">>

\* lvl is gameState.level as captured by the closure that is called
initializeGame(lvl) ==
  /\ gameState' = [gameState EXCEPT !.blocks = createBlocks(width, lvl),
                                    !.particles = <<>>,
                                    !.gameStatus = "playing"]
  /\ ball' = NewBall(BaseSpeed + lvl * SpeedXIncrement, -BaseSpeed - lvl * SpeedYIncrement)
  /\ paddle' = NewPaddle
  /\ comboMultiplier' = ComboOne
  /\ comboTimer' = 0
  /\ cues' = <<"gameStart">>

\* setGameState alone: ball, paddle and combo are left as they are
setGameState(gs) ==
  /\ gameState' = gs
  /\ gameStats' = handleGameStatsUpdate(gs)
  /\ highScoreEffect
  /\ cues' = <<>>
  /\ UNCHANGED <<touchRefs, width, height, ball, paddle, comboMultiplier, comboTimer, elapsed, ticks>>

pauseGame(prev) == [prev EXCEPT !.gameStatus = "paused"]

resumeGame(prev) == [prev EXCEPT !.gameStatus = "playing"]

resetGameToPlaying(prev) ==
  [prev EXCEPT !.score = 0, !.level = 1, !.lives = InitialLives, !.gameStatus = "playing"]

resetGameKeepScore(prev) ==
  [prev EXCEPT !.level = 1, !.lives = InitialLives, !.gameStatus = "menu"]

resetGame(prev) ==
  [prev EXCEPT !.score = 0, !.level = 1, !.lives = InitialLives, !.gameStatus = "menu"]

nextLevel(prev) == [prev EXCEPT !.level = @ + 1]

\* the branches shared by handleClick and handleTouchTap
acknowledge ==
  \/ /\ gameState.gameStatus = "menu"
     /\ initializeGame(gameState.level)
     /\ gameStats' = handleGameStatsUpdate(gameState')
     /\ highScoreEffect
     /\ UNCHANGED <<touchRefs, width, height, elapsed, timers, ticks>>
  \/ /\ gameState.gameStatus = "paused"
     /\ setGameState(resumeGame(gameState))
     /\ UNCHANGED timers
  \/ /\ gameState.gameStatus = "gameOver"
     /\ setGameState(resetGame(gameState))
     /\ UNCHANGED timers
  \/ /\ gameState.gameStatus = "levelComplete"
     /\ gameState.level < MaxLevel
     /\ setGameState(nextLevel(gameState))
     \* setTimeout(() => initializeGame(), 100): initializeGame is the
     \* callback of the current render, which closes over the current level
     /\ timers' = Append(timers, [left |-> TimeoutUnits, level |-> gameState.level])

handleClick == acknowledge

handleKeyPress ==
  \/ /\ gameState.gameStatus = "playing"
     /\ setGameState(pauseGame(gameState))
     /\ UNCHANGED timers
  \/ /\ gameState.gameStatus = "paused"
     /\ setGameState(resumeGame(gameState))
     /\ UNCHANGED timers

\* touchDistance is |lastTouchX - touchStartX| in pixels
TouchDistances == {0, 20}

\* the body of handleTouchTap, touchDistance being
\* |lastTouchXRef - touchStartXRef| in pixels
touchTap(touchDistance) ==
    IF touchDistance < 20
    THEN \/ acknowledge
         \/ /\ gameState.gameStatus = "playing"
            /\ setGameState(pauseGame(gameState))
            /\ UNCHANGED timers
    ELSE /\ cues' = <<>>
         /\ UNCHANGED <<touchRefs, width, height, gameState, ball, paddle, comboMultiplier,
                        comboTimer, elapsed, timers, gameStats, highScore, localStorage, ticks>>

\* the end of a touch whose gesture is not followed: the refs are left as
\* they are and the distance between them is any of TouchDistances
handleTouchTap == \E touchDistance \in TouchDistances : touchTap(touchDistance)

\* pointer positions in pixels, relative to the canvas
PointerXs == {0, width \div 2, width}

updatePaddlePositionNoClamp(mouseX) ==
  /\ IF gameState.gameStatus # "playing"
     THEN UNCHANGED paddle
     ELSE paddle' = [paddle EXCEPT !.position.x = mouseX * PX - paddle.width \div 2]
  /\ cues' = <<>>
  /\ UNCHANGED <<width, height, gameState, ball, comboMultiplier, comboTimer,
                 elapsed, timers, gameStats, highScore, localStorage, ticks>>

updatePaddlePositionAnyStatus(mouseX) ==
  /\ paddle' = [paddle EXCEPT !.position.x =
                  Max(0, Min(W - paddle.width, mouseX * PX - paddle.width \div 2))]
  /\ cues' = <<>>
  /\ UNCHANGED <<width, height, gameState, ball, comboMultiplier, comboTimer,
                 elapsed, timers, gameStats, highScore, localStorage, ticks>>

\* the body of handleMouseMove, and updatePaddlePosition behind the mouse and
\* touch handlers; mouseX is the pointer's x on the playfield, in pixels
updatePaddlePosition(mouseX) ==
  /\ IF gameState.gameStatus # "playing"
     THEN UNCHANGED paddle
     ELSE paddle' = [paddle EXCEPT !.position.x =
                       Max(0, Min(W - paddle.width, mouseX * PX - paddle.width \div 2))]
  /\ cues' = <<>>
  /\ UNCHANGED <<width, height, gameState, ball, comboMultiplier, comboTimer,
                 elapsed, timers, gameStats, highScore, localStorage, ticks>>

\* a mouse move, a touch start or a touch move
handleMouseMove ==
  /\ \E mouseX \in PointerXs : updatePaddlePosition(mouseX)
  /\ UNCHANGED touchRefs

\* the delayed callback of handleClick / handleTouchTap; it runs when its
\* 100 ms have passed, before the next frame
timerFire ==
  /\ timers # <<>>
  /\ Head(timers).left <= 0
  /\ initializeGame(Head(timers).level)
  /\ gameStats' = handleGameStatsUpdate(gameState')
  /\ highScoreEffect
  /\ timers' = Tail(timers)
  /\ UNCHANGED <<touchRefs, width, height, elapsed, ticks>>

-----------------------------------------------------------------------------
(* components/GameCanvas.tsx: the per-frame tick *)

\* the scan as a filter: a block that is hit leaves the list
RECURSIVE resolveBlocksDropDestroyed(_, _, _, _)
resolveBlocksDropDestroyed(blocks, b, combo, i) ==
  IF i = 0
  THEN [blocks |-> <<>>, velocity |-> b.velocity, newParticles |-> <<>>,
        hitBlock |-> FALSE, scoreGained |-> 0, cues |-> <<>>]
  ELSE LET prev == resolveBlocksDropDestroyed(blocks, b, combo, i - 1)
           block == blocks[i]
       IN  IF /\ ~block.destroyed
              /\ checkCollision(b.position, b.radius, block.position, block.width, block.height)
           THEN LET side == getCollisionSide(b.position, b.radius, block.position,
                                             block.width, block.height)
                IN  [blocks |-> prev.blocks,
                     velocity |-> IF side \in {"left", "right"}
                                  THEN [prev.velocity EXCEPT !.x = -@]
                                  ELSE [prev.velocity EXCEPT !.y = -@],
                     newParticles |-> prev.newParticles \o createParticles(block.color, ParticleCount),
                     hitBlock |-> TRUE,
                     scoreGained |-> prev.scoreGained + calculateScore(block.points, combo),
                     cues |-> Append(prev.cues, "blockHit")]
           ELSE [prev EXCEPT !.blocks = Append(@, block)]

\* the scan that stops at the first block it hits
RECURSIVE resolveBlocksFirstHit(_, _, _, _)
resolveBlocksFirstHit(blocks, b, combo, i) ==
  IF i = 0
  THEN [blocks |-> <<>>, velocity |-> b.velocity, newParticles |-> <<>>,
        hitBlock |-> FALSE, scoreGained |-> 0, cues |-> <<>>]
  ELSE LET prev == resolveBlocksFirstHit(blocks, b, combo, i - 1)
           block == blocks[i]
       IN  IF /\ ~prev.hitBlock
              /\ ~block.destroyed
              /\ checkCollision(b.position, b.radius, block.position, block.width, block.height)
           THEN LET side == getCollisionSide(b.position, b.radius, block.position,
                                             block.width, block.height)
                IN  [blocks |-> Append(prev.blocks, [block EXCEPT !.destroyed = TRUE]),
                     velocity |-> IF side \in {"left", "right"}
                                  THEN [prev.velocity EXCEPT !.x = -@]
                                  ELSE [prev.velocity EXCEPT !.y = -@],
                     newParticles |-> prev.newParticles \o createParticles(block.color, ParticleCount),
                     hitBlock |-> TRUE,
                     scoreGained |-> prev.scoreGained + calculateScore(block.points, combo),
                     cues |-> Append(prev.cues, "blockHit")]
           ELSE [prev EXCEPT !.blocks = Append(@, block)]

\* the scan that reflects velocity.x whatever the side
RECURSIVE resolveBlocksFlipX(_, _, _, _)
resolveBlocksFlipX(blocks, b, combo, i) ==
  IF i = 0
  THEN [blocks |-> <<>>, velocity |-> b.velocity, newParticles |-> <<>>,
        hitBlock |-> FALSE, scoreGained |-> 0, cues |-> <<>>]
  ELSE LET prev == resolveBlocksFlipX(blocks, b, combo, i - 1)
           block == blocks[i]
       IN  IF /\ ~block.destroyed
              /\ checkCollision(b.position, b.radius, block.position, block.width, block.height)
           THEN [blocks |-> Append(prev.blocks, [block EXCEPT !.destroyed = TRUE]),
                 velocity |-> [prev.velocity EXCEPT !.x = -@],
                 newParticles |-> prev.newParticles \o createParticles(block.color, ParticleCount),
                 hitBlock |-> TRUE,
                 scoreGained |-> prev.scoreGained + calculateScore(block.points, combo),
                 cues |-> Append(prev.cues, "blockHit")]
           ELSE [prev EXCEPT !.blocks = Append(@, block)]

\* the scan that turns the ball back at most once along each axis
RECURSIVE resolveBlocksFlipOnce(_, _, _, _)
resolveBlocksFlipOnce(blocks, b, combo, i) ==
  IF i = 0
  THEN [blocks |-> <<>>, velocity |-> b.velocity, newParticles |-> <<>>,
        hitBlock |-> FALSE, scoreGained |-> 0, cues |-> <<>>]
  ELSE LET prev == resolveBlocksFlipOnce(blocks, b, combo, i - 1)
           block == blocks[i]
       IN  IF /\ ~block.destroyed
              /\ checkCollision(b.position, b.radius, block.position, block.width, block.height)
           THEN LET side == getCollisionSide(b.position, b.radius, block.position,
                                             block.width, block.height)
                IN  [blocks |-> Append(prev.blocks, [block EXCEPT !.destroyed = TRUE]),
                     velocity |-> IF side \in {"left", "right"}
                                  THEN [prev.velocity EXCEPT !.x = -b.velocity.x]
                                  ELSE [prev.velocity EXCEPT !.y = -b.velocity.y],
                     newParticles |-> prev.newParticles \o createParticles(block.color, ParticleCount),
                     hitBlock |-> TRUE,
                     scoreGained |-> prev.scoreGained + calculateScore(block.points, combo),
                     cues |-> Append(prev.cues, "blockHit")]
           ELSE [prev EXCEPT !.blocks = Append(@, block)]

\* the scan of prevState.blocks.map(...) over blocks 1..i: the updated
\* blocks, the ball velocity after the flips, the particles, hitBlock,
\* scoreGained and the block-hit cues
RECURSIVE resolveBlocks(_, _, _, _)
resolveBlocks(blocks, b, combo, i) ==
  IF i = 0
  THEN [blocks |-> <<>>, velocity |-> b.velocity, newParticles |-> <<>>,
        hitBlock |-> FALSE, scoreGained |-> 0, cues |-> <<>>]
  ELSE LET prev == resolveBlocks(blocks, b, combo, i - 1)
           block == blocks[i]
       IN  IF /\ ~block.destroyed
              /\ checkCollision(b.position, b.radius, block.position, block.width, block.height)
           THEN LET side == getCollisionSide(b.position, b.radius, block.position,
                                             block.width, block.height)
                IN  [blocks |-> Append(prev.blocks, [block EXCEPT !.destroyed = TRUE]),
                     velocity |-> IF side \in {"left", "right"}
                                  THEN [prev.velocity EXCEPT !.x = -@]
                                  ELSE [prev.velocity EXCEPT !.y = -@],
                     newParticles |-> prev.newParticles \o createParticles(block.color, ParticleCount),
                     hitBlock |-> TRUE,
                     scoreGained |-> prev.scoreGained + calculateScore(block.points, combo),
                     cues |-> Append(prev.cues, "blockHit")]
           ELSE [prev EXCEPT !.blocks = Append(@, block)]

nextComboMultiplierNoBounds(combo, hitBlock, deltaTime) ==
  IF hitBlock THEN combo + ComboStep ELSE combo - deltaTime

nextComboMultiplierFullDecay(combo, hitBlock, deltaTime) ==
  IF hitBlock THEN Min(combo + ComboStep, ComboMax)
              ELSE Max(combo - 2 * deltaTime, ComboOne)

\* hitBlock ? min(combo + 0.1, 3) : max(combo - deltaTime * 0.5, 1)
nextComboMultiplier(combo, hitBlock, deltaTime) ==
  IF hitBlock THEN Min(combo + ComboStep, ComboMax)
              ELSE Max(combo - deltaTime, ComboOne)

\* hitBlock ? 2 : max(comboTimer - deltaTime, 0)
nextComboTimer(timer, hitBlock, deltaTime) ==
  IF hitBlock THEN ComboTimerFull ELSE Max(timer - deltaTime, 0)

completeLevelWithOneLeft(scored) ==
  IF blocksRemaining(scored) <= 1
  THEN [scored EXCEPT !.gameStatus = "levelComplete"]
  ELSE scored

\* the end of the first setGameState of the tick
completeLevel(scored) ==
  IF blocksRemaining(scored) = 0
  THEN [scored EXCEPT !.gameStatus = "levelComplete"]
  ELSE scored

loseLifeNoGameOver(prevState) ==
  LET newLives == prevState.lives - 1
  IN  [prevState EXCEPT !.lives = Max(newLives, 0)]

loseLifeTwice(prevState) ==
  LET newLives == prevState.lives - 2
  IN  IF newLives <= 0
      THEN [prevState EXCEPT !.lives = 0, !.gameStatus = "gameOver"]
      ELSE [prevState EXCEPT !.lives = newLives]

loseLifeResetScore(prevState) ==
  LET newLives == prevState.lives - 1
  IN  IF newLives <= 0
      THEN [prevState EXCEPT !.lives = 0, !.gameStatus = "gameOver"]
      ELSE [prevState EXCEPT !.lives = newLives, !.score = 0]

\* the second setGameState of the tick, run when the ball is out of bounds
loseLife(prevState) ==
  LET newLives == prevState.lives - 1
  IN  IF newLives <= 0
      THEN [prevState EXCEPT !.lives = 0, !.gameStatus = "gameOver"]
      ELSE [prevState EXCEPT !.lives = newLives]

\* the cue played by the second setGameState
lifeCue(prevState) ==
  IF prevState.lives - 1 <= 0 THEN <<"gameOver">> ELSE <<"lifeLost">>

deltaTime == Min(elapsed, MaxStep)

\* the ball after integration and paddle deflection
tickBall == handlePaddleCollision(updateBallPosition(ball, W, H, deltaTime), paddle)

\* newBall.position.y > height
ballOut == tickBall.position.y > H

\* the body of gameLoop while playing
tick ==
  LET moved == updateBallPosition(ball, W, H, deltaTime)
      deflected == tickBall
      paddleCue == IF moved.velocity.y # deflected.velocity.y THEN <<"paddleHit">> ELSE <<>>
      wallCue ==
        IF \/ deflected.position.x <= deflected.radius /\ deflected.velocity.x > 0
           \/ deflected.position.x >= W - deflected.radius /\ deflected.velocity.x < 0
           \/ deflected.position.y <= deflected.radius /\ deflected.velocity.y > 0
        THEN <<"wallBounce">> ELSE <<>>
      res == resolveBlocks(gameState.blocks, deflected, comboMultiplier, Len(gameState.blocks))
      newBall == [deflected EXCEPT !.velocity = res.velocity]
      updatedParticles == updateParticles(gameState.particles \o res.newParticles, deltaTime)
      scored == [gameState EXCEPT !.blocks = res.blocks,
                                  !.particles = updatedParticles,
                                  !.score = @ + res.scoreGained]
      afterBlocks == completeLevel(scored)
      levelCue == IF blocksRemaining(scored) = 0 THEN <<"levelComplete">> ELSE <<>>
  IN  /\ gameState' = IF ballOut THEN loseLife(afterBlocks) ELSE afterBlocks
      /\ ball' = IF ballOut THEN NewBall(BaseSpeed, -BaseSpeed) ELSE newBall
      /\ comboMultiplier' = nextComboMultiplier(comboMultiplier, res.hitBlock, deltaTime)
      /\ comboTimer' = nextComboTimer(comboTimer, res.hitBlock, deltaTime)
      /\ cues' = paddleCue \o wallCue \o res.cues \o levelCue
                 \o (IF ballOut THEN lifeCue(afterBlocks) ELSE <<>>)
      /\ gameStats' = handleGameStatsUpdate(gameState')
      /\ highScoreEffect
      /\ elapsed' = Min(FramePeriod, MaxStep)
      /\ ticks' = ticks + 1
      /\ UNCHANGED <<touchRefs, width, height, paddle>>

skipsPaused(status) == status \notin {"playing", "paused"}

\* gameState.gameStatus !== 'playing': the frame returns without a tick
skips(status) == status # "playing"

\* one animation frame; a frame is not delivered while a timer is due
gameLoop ==
  /\ \A i \in DOMAIN timers : timers[i].left > 0
  /\ timers' = [i \in DOMAIN timers |-> [timers[i] EXCEPT !.left = @ - FramePeriod]]
  /\ \/ /\ ~skips(gameState.gameStatus)
        /\ ticks < MaxTicks
        /\ tick
     \/ /\ skips(gameState.gameStatus)
        /\ elapsed' = Min(elapsed + FramePeriod, MaxStep)
        /\ cues' = <<>>
        /\ UNCHANGED <<touchRefs, width, height, gameState, ball, paddle, comboMultiplier,
                       comboTimer, gameStats, highScore, localStorage, ticks>>

-----------------------------------------------------------------------------
(* App.tsx *)

\* the Play/Pause button of GameControls, disabled in menu and gameOver
handlePlayPause ==
  /\ gameStats.gameStatus \notin {"menu", "gameOver"}
  /\ gameStats' = [gameStats EXCEPT !.gameStatus =
                     IF @ = "playing" THEN "paused" ELSE "playing"]
  /\ highScoreEffect
  /\ cues' = <<>>
  /\ UNCHANGED <<touchRefs, width, height, gameState, ball, paddle, comboMultiplier,
                 comboTimer, elapsed, timers, ticks>>

-----------------------------------------------------------------------------

Next ==
  \/ handleClick
  \/ handleKeyPress
  \/ handleTouchTap
  \/ handleMouseMove
  \/ timerFire
  \/ gameLoop
  \/ handlePlayPause

Spec == Init /\ [][Next]_vars

-----------------------------------------------------------------------------
(* The combo multiplier on its own: any sequence of ticks with and without *)
(* a block hit, with any step up to the clamp, and of level starts.        *)

comboTick ==
  /\ gameState.gameStatus = "playing"
  /\ \E hitBlock \in BOOLEAN, dt \in 1..MaxStep :
       /\ comboMultiplier' = nextComboMultiplier(comboMultiplier, hitBlock, dt)
       /\ comboTimer' = nextComboTimer(comboTimer, hitBlock, dt)
  /\ UNCHANGED <<touchRefs, width, height, gameState, ball, paddle, elapsed, timers,
                 gameStats, highScore, localStorage, cues, ticks>>

comboStart ==
  /\ initializeGame(gameState.level)
  /\ gameStats' = handleGameStatsUpdate(gameState')
  /\ highScoreEffect
  /\ UNCHANGED <<touchRefs, width, height, elapsed, timers, ticks>>

NextCombo == comboTick \/ comboStart

SpecCombo == Init /\ [][NextCombo]_vars

-----------------------------------------------------------------------------
\* The shell alone: App's high score under any sequence of reported scores,
\* from any stored item, across reloads of the page.

\* the scores reported: the multiples of 7 up to MaxReported of them
MaxReported == 20
ReportedScores == { 7 * k : k \in 0..MaxReported }

\* the item found at startup: none, the empty string, "0", "35", "50", "007"
\* and "1000"
StartupItems ==
  { Absent } \cup
  { [present |-> TRUE, value |-> v] :
      v \in { <<>>, <<0>>, <<3, 5>>, <<5, 0>>, <<0, 0, 7>>, <<1, 0, 0, 0>> } }

InitShell ==
  /\ width = 400
  /\ height = 400
  /\ gameState = [score |-> 0, level |-> 1, lives |-> InitialLives,
                  blocks |-> <<>>, particles |-> <<>>, gameStatus |-> "menu"]
  /\ ball = NewBall(BaseSpeed, -BaseSpeed)
  /\ paddle = NewPaddle
  /\ comboMultiplier = ComboOne
  /\ comboTimer = 0
  /\ elapsed = MaxStep
  /\ timers = <<>>
  /\ gameStats = handleGameStatsUpdate(gameState)
  /\ localStorage \in StartupItems
  /\ highScore = loadHighScore(localStorage)
  /\ newTouchRefs
  /\ cues = <<>>
  /\ ticks = 0

\* handleGameStatsUpdate with statistics of score n, then the effect
reportScore(n) ==
  /\ gameStats' = [gameStats EXCEPT !.score = n]
  /\ highScoreEffect
  /\ UNCHANGED <<touchRefs, width, height, gameState, ball, paddle, comboMultiplier, comboTimer,
                 elapsed, timers, cues, ticks>>

\* the page is loaded again: the states are initialized anew, localStorage
\* remains, and the effect runs on the initial statistics
reload ==
  /\ gameStats' = handleGameStatsUpdate(gameState)
  /\ LET loaded == loadHighScore(localStorage)
     IN  /\ highScore' = IF gameStats'.score > loaded THEN gameStats'.score ELSE loaded
         /\ localStorage' = IF gameStats'.score > loaded
                            THEN [present |-> TRUE, value |-> toString(gameStats'.score)]
                            ELSE localStorage
  /\ UNCHANGED <<touchRefs, width, height, gameState, ball, paddle, comboMultiplier, comboTimer,
                 elapsed, timers, cues, ticks>>

NextShell ==
  \/ \E n \in ReportedScores : reportScore(n)
  \/ reload

SpecShell == InitShell /\ [][NextShell]_vars

-----------------------------------------------------------------------------
(* The tick and the physics helpers from any position: the state is one of *)
(* the probes below, a level in play, and one call is made from it.  The   *)
(* result of a call that returns no ball is left in cues.                  *)

ProbeField == <<156, 400>>       \* a canvas with two columns of blocks
ProbeSlit == <<16, 400>>         \* a canvas as wide as the ball

\* multipliers 1.0, 2.95 and 3.0
ProbeCombos == {ComboOne, ComboMax - ComboStep \div 2, ComboMax}

\* the velocity of level 1, in the four directions
ProbeVelocities ==
  { [x |-> sx * (BaseSpeed + SpeedXIncrement), y |-> sy * (BaseSpeed + SpeedYIncrement)] :
      sx \in {-1, 1}, sy \in {-1, 1} }

\* the velocity of level 110, up and down
FastVelocities == { [x |-> s * 3000, y |-> -s * 1900] : s \in {-1, 1} }

\* balls around the upper three rows of the layout, every 4 pixels
ScanProbes ==
  { [size |-> ProbeField,
     position |-> [x |-> a * 4 * PX, y |-> b * 4 * PX],
     velocity |-> v, combo |-> c, destroyedRows |-> d, elapsed |-> MaxStep] :
      a \in 14..26, b \in 11..30, v \in ProbeVelocities, c \in ProbeCombos,
      d \in {{}, {1}} }

\* balls on the diagonals of the first block of the layout, where the two
\* normalized offsets of getCollisionSide are equal: the offset is j/30 of
\* (rectWidth/2 + r, rectHeight/2 + r) on both axes
TieProbes ==
  LET block == createBlocks(ProbeField[1], 1)[1]
      cx == block.position.x + block.width \div 2
      cy == block.position.y + block.height \div 2
      stepX == (block.width + 2 * BallRadius * PX) \div 60
      stepY == (block.height + 2 * BallRadius * PX) \div 60
  IN  { [size |-> ProbeField,
         position |-> [x |-> cx + sx * stepX * j, y |-> cy + sy * stepY * j],
         velocity |-> [x |-> BaseSpeed + SpeedXIncrement, y |-> -BaseSpeed - SpeedYIncrement],
         combo |-> ComboOne, destroyedRows |-> {}, elapsed |-> e] :
          j \in {0, 6, 12, 18, 24, 27, 30}, sx \in {-1, 1}, sy \in {-1, 1}, e \in {0, MaxStep} }

\* balls at, inside and outside the walls of a canvas
WallProbes(size) ==
  { [size |-> size,
     position |-> [x |-> a * PX, y |-> b * PX],
     velocity |-> v, combo |-> ComboOne, destroyedRows |-> {}, elapsed |-> e] :
      a \in {-4, 0, 4, 8, 9, size[1] \div 2, size[1] - 9, size[1] - 8, size[1] - 4,
             size[1], size[1] + 4},
      b \in {-4, 0, 8, 9, 17, size[2] - 9, size[2], size[2] + 4},
      v \in ProbeVelocities \cup FastVelocities,
      e \in 0..MaxStep }

\* every velocity a probe of a single call starts with: those above, straight
\* down and level
CallVelocities ==
  ProbeVelocities \cup FastVelocities \cup {[x |-> 0, y |-> BaseSpeed], [x |-> BaseSpeed, y |-> 0]}

\* the paddle of a canvas at pixel x
paddleAt(size, x) ==
  [position |-> [x |-> x * PX, y |-> (size[2] - PaddleOffset) * PX],
   width |-> PaddleWidth * PX,
   height |-> PaddleHeight * PX,
   velocity |-> 0]

\* balls around the paddle, the paddle at the left wall, in the middle and at
\* the right wall: left of, at and right of its ends and its centre, above,
\* at and below its faces
PaddleProbes ==
  { [size |-> ProbeField,
     position |-> [x |-> (px + a) * PX, y |-> (ProbeField[2] - PaddleOffset + b) * PX],
     velocity |-> v, combo |-> ComboOne, destroyedRows |-> {}, elapsed |-> MaxStep,
     paddle |-> paddleAt(ProbeField, px)] :
      px \in {0, (ProbeField[1] - PaddleWidth) \div 2, ProbeField[1] - PaddleWidth},
      a \in {-9, -8, -4, 0, 30, PaddleWidth \div 2, 90, PaddleWidth, PaddleWidth + 4,
             PaddleWidth + 8, PaddleWidth + 9},
      b \in {-9, -8, -6, -1, 0, 7, PaddleHeight, PaddleHeight + 6, PaddleHeight + 8,
             PaddleHeight + 9},
      v \in CallVelocities }

\* the lives, in 1/LifeOne, of the particles a probe starts with: fresh, about
\* to end within a step of 1/60 s or of 1/30 s, and beyond
ProbeLives ==
  { <<>>, <<LifeOne>>, <<1>>, <<2>>, <<3>>, <<2, 2>>, <<1, 2, 3>>, <<3, 1, LifeOne, 2>>,
    <<LifeOne, 2, LifeOne - 1, 1, 4>> }

\* particles of the lives given, of successive ids and colours
probeParticles(lives) ==
  [i \in DOMAIN lives |->
     [id |-> i - 1, life |-> lives[i], maxLife |-> LifeOne, color |-> i % PaletteSize]]

\* particles in flight while the ball is in the open field or inside the
\* first block
ParticleProbes ==
  { [size |-> ProbeField, position |-> [x |-> xy[1] * PX, y |-> xy[2] * PX],
     velocity |-> [x |-> BaseSpeed + SpeedXIncrement, y |-> -BaseSpeed - SpeedYIncrement],
     combo |-> ComboOne, destroyedRows |-> {}, elapsed |-> e,
     particles |-> probeParticles(lives)] :
      xy \in {<<78, 200>>, <<54, 70>>}, e \in 0..MaxStep, lives \in ProbeLives }

\* circles of radius 1 to 3 at every point of a grid around rectangles of
\* width 1 to 4 and height 1 to 3 in the open field, in units of 1/PX pixel
GridProbes ==
  LET corner == [x |-> (ProbeField[1] \div 2) * PX, y |-> (ProbeField[2] \div 2) * PX]
  IN  { [size |-> ProbeField,
         position |-> [x |-> corner.x + a, y |-> corner.y + b],
         velocity |-> [x |-> BaseSpeed + SpeedXIncrement, y |-> BaseSpeed + SpeedYIncrement],
         combo |-> ComboOne, destroyedRows |-> {}, elapsed |-> MaxStep,
         radius |-> r,
         paddle |-> [position |-> corner, width |-> w, height |-> h, velocity |-> 0]] :
          a \in -4..8, b \in -4..7, r \in 1..3, w \in {1, 2, 4}, h \in {1, 3} }

Probes ==
  ScanProbes \cup TieProbes \cup WallProbes(ProbeField) \cup WallProbes(ProbeSlit)
    \cup PaddleProbes \cup ParticleProbes \cup GridProbes

\* the field of a probe, or the value a probe without the field stands for
probeField(q, name, default) == IF name \in DOMAIN q THEN q[name] ELSE default

\* the layout of level 1 with the rows of destroyedRows destroyed
probeBlocks(canvasWidth, destroyedRows) ==
  LET fresh == createBlocks(canvasWidth, 1)
  IN  [i \in DOMAIN fresh |->
         [fresh[i] EXCEPT !.destroyed = fresh[i].id[1] \in destroyedRows]]

\* the points of the destroyed blocks 1..i at multiplier 1
RECURSIVE probeScore(_, _)
probeScore(blocks, i) ==
  IF i = 0 THEN 0
  ELSE probeScore(blocks, i - 1)
       + (IF blocks[i].destroyed THEN calculateScore(blocks[i].points, ComboOne) ELSE 0)

InitPhysics ==
  \E q \in Probes :
    /\ width = q.size[1]
    /\ height = q.size[2]
    /\ gameState = [score |-> probeScore(probeBlocks(width, q.destroyedRows),
                                         Len(probeBlocks(width, q.destroyedRows))),
                    level |-> 1, lives |-> InitialLives,
                    blocks |-> probeBlocks(width, q.destroyedRows),
                    particles |-> probeField(q, "particles", <<>>),
                    gameStatus |-> "playing"]
    /\ ball = [position |-> q.position, velocity |-> q.velocity,
               radius |-> probeField(q, "radius", BallRadius * PX), trail |-> <<>>]
    /\ paddle = probeField(q, "paddle", NewPaddle)
    /\ comboMultiplier = q.combo
    /\ comboTimer = 0
    /\ elapsed = q.elapsed
    /\ timers = <<>>
    /\ gameStats = handleGameStatsUpdate(gameState)
    /\ localStorage = Absent
    /\ highScore = loadHighScore(localStorage)
    /\ newTouchRefs
    /\ cues = <<>>
    /\ ticks = 0

\* one tick of gameLoop
probeTick ==
  /\ ticks = 0
  /\ ~skips(gameState.gameStatus)
  /\ tick
  /\ UNCHANGED timers

\* one call of updateBallPosition, as the tick makes it
probeUpdateBallPosition ==
  /\ ticks = 0
  /\ ball' = updateBallPosition(ball, W, H, deltaTime)
  /\ cues' = <<>>
  /\ ticks' = 1
  /\ UNCHANGED <<touchRefs, width, height, gameState, paddle, comboMultiplier, comboTimer,
                 elapsed, timers, gameStats, highScore, localStorage>>

\* one call of getCollisionSide on the ball and block i
probeGetCollisionSide(i) ==
  /\ ticks = 0
  /\ i \in DOMAIN gameState.blocks
  /\ cues' = <<getCollisionSide(ball.position, ball.radius, gameState.blocks[i].position,
                                gameState.blocks[i].width, gameState.blocks[i].height)>>
  /\ ticks' = 1
  /\ UNCHANGED <<touchRefs, width, height, gameState, ball, paddle, comboMultiplier, comboTimer,
                 elapsed, timers, gameStats, highScore, localStorage>>

\* one call of handlePaddleCollision, as the tick makes it
probeHandlePaddleCollision ==
  /\ ticks = 0
  /\ ball' = handlePaddleCollision(ball, paddle)
  /\ cues' = <<>>
  /\ ticks' = 1
  /\ UNCHANGED <<touchRefs, width, height, gameState, paddle, comboMultiplier, comboTimer,
                 elapsed, timers, gameStats, highScore, localStorage>>

\* one call of updateParticles on the particles in flight
probeUpdateParticles ==
  /\ ticks = 0
  /\ gameState' = [gameState EXCEPT !.particles = updateParticles(@, deltaTime)]
  /\ cues' = <<>>
  /\ ticks' = 1
  /\ UNCHANGED <<touchRefs, width, height, ball, paddle, comboMultiplier, comboTimer,
                 elapsed, timers, gameStats, highScore, localStorage>>

\* one call of checkCollision with the ball and the paddle's rectangle; the
\* result is left in cues
probeCheckCollision ==
  /\ ticks = 0
  /\ cues' = <<IF checkCollision(ball.position, ball.radius, paddle.position,
                                 paddle.width, paddle.height)
               THEN "overlap" ELSE "apart">>
  /\ ticks' = 1
  /\ UNCHANGED <<touchRefs, width, height, gameState, ball, paddle, comboMultiplier, comboTimer,
                 elapsed, timers, gameStats, highScore, localStorage>>

NextPhysics ==
  \/ probeTick
  \/ probeUpdateBallPosition
  \/ \E i \in DOMAIN gameState.blocks : probeGetCollisionSide(i)
  \/ probeHandlePaddleCollision
  \/ probeUpdateParticles
  \/ probeCheckCollision

SpecPhysics == InitPhysics /\ [][NextPhysics]_vars

-----------------------------------------------------------------------------
\* The touch handlers alone: gestures of touchstart, touchmove and touchend
\* on a canvas in each of the five statuses, between two frames.

\* clientX of a touch in pixels, the canvas at the left of the viewport and
\* unscaled
TouchXs == {190, 200, 210, 220}

\* a game in the status given: before the first start, at the start of level
\* 1, with no life left, and with every block destroyed
touchGame(status) ==
  LET fresh == createBlocks(width, 1)
      cleared == [i \in DOMAIN fresh |-> [fresh[i] EXCEPT !.destroyed = TRUE]]
  IN  [score |-> IF status = "levelComplete" THEN probeScore(cleared, Len(cleared)) ELSE 0,
       level |-> 1,
       lives |-> IF status = "gameOver" THEN 0 ELSE InitialLives,
       blocks |-> IF status = "menu" THEN <<>>
                  ELSE IF status = "levelComplete" THEN cleared ELSE fresh,
       particles |-> <<>>,
       gameStatus |-> status]

InitTouch ==
  /\ width = 400
  /\ height = 400
  /\ \E status \in {"menu", "playing", "paused", "gameOver", "levelComplete"} :
       /\ gameState = touchGame(status)
       /\ ball = IF status = "menu" THEN NewBall(BaseSpeed, -BaseSpeed)
                 ELSE NewBall(BaseSpeed + SpeedXIncrement, -BaseSpeed - SpeedYIncrement)
  /\ paddle = NewPaddle
  /\ comboMultiplier = ComboOne
  /\ comboTimer = 0
  /\ elapsed = MaxStep
  /\ timers = <<>>
  /\ gameStats = handleGameStatsUpdate(gameState)
  /\ localStorage = IF gameStats.score > 0
                    THEN [present |-> TRUE, value |-> toString(gameStats.score)]
                    ELSE Absent
  /\ highScore = loadHighScore(localStorage)
  /\ newTouchRefs
  /\ cues = <<>>
  /\ ticks = 0

handleTouchStart(clientX) ==
  /\ touchStartXRef' = clientX
  /\ lastTouchXRef' = clientX
  /\ isTouchingRef' = TRUE
  /\ farthest' = 0
  /\ updatePaddlePosition(clientX)

handleTouchMove(clientX) ==
  IF isTouchingRef
  THEN /\ lastTouchXRef' = clientX
       /\ farthest' = Max(farthest, Abs(clientX - touchStartXRef))
       /\ updatePaddlePosition(clientX)
       /\ UNCHANGED <<touchStartXRef, isTouchingRef>>
  ELSE /\ cues' = <<>>
       /\ UNCHANGED <<touchRefs, width, height, gameState, ball, paddle, comboMultiplier,
                      comboTimer, elapsed, timers, gameStats, highScore, localStorage, ticks>>

\* onTouchEnd = handleTouchTap, with the refs as the gesture left them
touchEnd == touchTap(Abs(lastTouchXRef - touchStartXRef))

NextTouch ==
  \/ \E clientX \in TouchXs : handleTouchStart(clientX)
  \/ \E clientX \in TouchXs : handleTouchMove(clientX)
  \/ touchEnd

SpecTouch == InitTouch /\ [][NextTouch]_vars

-----------------------------------------------------------------------------
(* Properties *)

count(seq, e) == Cardinality({i \in DOMAIN seq : seq[i] = e})

\* the points of the blocks 1..i that a step destroys, at multiplier combo
RECURSIVE destroyedPoints(_, _, _, _)
destroyedPoints(before, after, combo, i) ==
  IF i = 0 THEN 0
  ELSE destroyedPoints(before, after, combo, i - 1)
       + (IF ~before[i].destroyed /\ after[i].destroyed
          THEN calculateScore(before[i].points, combo) ELSE 0)

AllowedEdges ==
  { <<"menu", "playing">>, <<"playing", "paused">>, <<"paused", "playing">>,
    <<"playing", "levelComplete">>, <<"levelComplete", "playing">>,
    <<"playing", "gameOver">>, <<"gameOver", "menu">> }

\* C1: gameStatus starts as menu and every change of gameStatus is one of
\* menu->playing, playing->paused, paused->playing, playing->levelComplete,
\* levelComplete->playing, playing->gameOver, gameOver->menu.
C1_StatusEdges ==
  /\ gameState.gameStatus = "menu"
  /\ [][gameState'.gameStatus # gameState.gameStatus
        => <<gameState.gameStatus, gameState'.gameStatus>> \in AllowedEdges]_vars

\* a game was played to its end and acknowledged: back in menu
C1_Witness == gameState.gameStatus = "menu" /\ ticks > 0

\* C2: lives is in 0..3 in every state, and lives = 0 only in gameOver.
C2_LivesRange ==
  /\ gameState.lives \in 0..InitialLives
  /\ (gameState.lives = 0 => gameState.gameStatus = "gameOver")

C2_Witness == gameState.lives = 0 /\ gameState.gameStatus = "gameOver"

\* C3: while playing, lives changes only in a tick that ends with the ball
\* below the playfield, and then by -1; the ball is recreated at the start
\* position with velocity (250, -250) and an empty trail; with lives left the
\* status stays playing and the life-lost cue alone is played, with the last
\* life the status becomes gameOver and the game-over cue alone is played.
C3_LifeLoss ==
  [][gameState.gameStatus = "playing" =>
       IF ticks' # ticks /\ ballOut
       THEN /\ gameState'.lives = gameState.lives - 1
            /\ ball' = [position |-> [x |-> W \div 2, y |-> (height - 150) * PX],
                        velocity |-> [x |-> 250, y |-> -250],
                        radius |-> 8 * PX,
                        trail |-> <<>>]
            /\ IF gameState.lives = 1
               THEN /\ gameState'.lives = 0
                    /\ gameState'.gameStatus = "gameOver"
                    /\ count(cues', "gameOver") = 1
                    /\ count(cues', "lifeLost") = 0
               ELSE /\ gameState'.gameStatus = "playing"
                    /\ count(cues', "lifeLost") = 1
                    /\ count(cues', "gameOver") = 0
       ELSE gameState'.lives = gameState.lives]_vars

\* the third ball of a game has just been lost
C3_Witness ==
  /\ count(cues, "gameOver") = 1
  /\ gameState.lives = 0
  /\ ball.trail = <<>>
  /\ ball.velocity = [x |-> 250, y |-> -250]

\* C4: a tick that leaves no block standing sets levelComplete and has
\* added the points of the blocks it destroyed to the score; and in every
\* state with gameStatus = levelComplete no block is standing.
C4_LevelComplete ==
  /\ [](gameState.gameStatus = "levelComplete" => blocksRemaining(gameState) = 0)
  /\ [][(ticks' # ticks /\ blocksRemaining(gameState') = 0) =>
          /\ gameState'.gameStatus = "levelComplete"
          /\ gameState'.score = gameState.score
               + destroyedPoints(gameState.blocks, gameState'.blocks,
                                 comboMultiplier, Len(gameState.blocks))]_vars

\* the tick that destroyed the last block of a layout has run
C4_Witness ==
  /\ gameState.gameStatus = "levelComplete"
  /\ count(cues, "levelComplete") = 1
  /\ count(cues, "blockHit") >= 1
  /\ Len(gameState.blocks) > 0
  /\ gameState.score > 0

\* C5: on the entry to playing that follows the acknowledgment of
\* levelComplete, the layout and the ball's velocity are those of the
\* incremented level.
C5_NextLevelUsesNewLevel ==
  [][(gameState.gameStatus = "levelComplete" /\ gameState'.gameStatus = "playing") =>
       /\ gameState'.blocks = createBlocks(width, gameState'.level)
       /\ ball'.velocity = [x |-> 250 + 25 * gameState'.level,
                            y |-> -250 - 15 * gameState'.level]]_vars

\* C6: after an entry to playing from menu or levelComplete no block is
\* destroyed, there are no particles, the multiplier is 1, ball and paddle
\* are at their start geometry, and score and lives are unchanged.
C6_FreshLevel ==
  [][(gameState.gameStatus \in {"menu", "levelComplete"} /\ gameState'.gameStatus = "playing") =>
       /\ \A i \in DOMAIN gameState'.blocks : ~gameState'.blocks[i].destroyed
       /\ gameState'.particles = <<>>
       /\ comboMultiplier' = ComboOne
       /\ ball'.position = [x |-> W \div 2, y |-> (height - 150) * PX]
       /\ ball'.trail = <<>>
       /\ paddle'.position = [x |-> W \div 2 - 60 * PX, y |-> (height - 60) * PX]
       /\ gameState'.score = gameState.score
       /\ gameState'.lives = gameState.lives]_vars

\* the second level has just been entered, with the score of the first
C6_Witness ==
  /\ gameState.gameStatus = "playing"
  /\ cues = <<"gameStart">>
  /\ gameState.level = 2
  /\ gameState.score > 0
  /\ Len(gameState.blocks) > 0

\* C7: a change of the game state in gameOver leads to menu with score 0,
\* level 1 and lives 3, and in menu these values always hold.
C7_ResetOnAcknowledge ==
  /\ [](gameState.gameStatus = "menu" =>
          gameState.score = 0 /\ gameState.level = 1 /\ gameState.lives = 3)
  /\ [][(gameState.gameStatus = "gameOver" /\ gameState' # gameState) =>
          /\ gameState'.gameStatus = "menu"
          /\ gameState'.score = 0
          /\ gameState'.level = 1
          /\ gameState'.lives = 3]_vars

\* a second game has been started after a lost one
C7_Witness ==
  /\ gameState.gameStatus = "playing"
  /\ cues = <<"gameStart">>
  /\ ticks > 0
  /\ gameState.level = 1
  /\ gameState.score = 0
  /\ gameState.lives = 3

\* C8: a frame that arrives while gameStatus is not playing changes none of
\* ball, paddle, game state (blocks, particles, score, lives, level, status)
\* and multiplier.
C8_NoTickUnlessPlaying ==
  [][(gameState.gameStatus # "playing" /\ gameLoop) =>
       UNCHANGED <<gameState, ball, paddle, comboMultiplier, comboTimer>>]_vars

\* frames have been delivered while the level was complete
C8_Witness ==
  /\ gameState.gameStatus = "levelComplete"
  /\ timers # <<>>
  /\ Head(timers).left < TimeoutUnits

\* C9: the shell's Play/Pause button pauses the core when the core is
\* playing, and the shell's gameStatus is the core's gameStatus.
C9_ShellPauseReachesCore ==
  /\ [](gameStats.gameStatus = gameState.gameStatus)
  /\ [][(handlePlayPause /\ gameState.gameStatus = "playing") =>
          gameState'.gameStatus = "paused"]_vars

\* C10: the combo multiplier lies between 1 and 3 in every state.
C10_ComboRange == comboMultiplier >= ComboOne /\ comboMultiplier <= ComboMax

\* the multiplier has reached 3 and has decayed back to 1
C10_Witness == comboMultiplier = ComboMax /\ comboTimer = ComboTimerFull


\* the multiplier after n ticks with a hit, from multiplier m
RECURSIVE afterHits(_, _)
afterHits(m, n) == IF n = 0 THEN m ELSE nextComboMultiplier(afterHits(m, n - 1), TRUE, MaxStep)

\* the blocks that a step destroys
destroyedBy(before, after) ==
  {i \in DOMAIN before : ~before[i].destroyed /\ after[i].destroyed}

C12_ScoreMonotonic ==
  [][\/ gameState'.score >= gameState.score
     \/ /\ gameState.gameStatus = "gameOver"
        /\ gameState'.gameStatus = "menu"
        /\ gameState'.score = 0]_vars

\* a life has been lost after blocks were destroyed, and the score is kept
C12_Witness ==
  /\ gameState.gameStatus = "playing"
  /\ gameState.lives < InitialLives
  /\ count(cues, "lifeLost") = 1
  /\ gameState.score > 0

\* a block but for its destroyed flag
sameBlock(a, b) ==
  /\ a.id = b.id
  /\ a.position = b.position
  /\ a.width = b.width
  /\ a.height = b.height
  /\ a.color = b.color
  /\ a.points = b.points

\* C13: a step that does not start a level, a tick above all, keeps the
\* number of blocks and every block's id, position, width, height, color and
\* points, and a destroyed block stays destroyed.
C13_BlocksImmutable ==
  [][cues' # <<"gameStart">> =>
       /\ Len(gameState'.blocks) = Len(gameState.blocks)
       /\ \A i \in DOMAIN gameState.blocks :
            /\ sameBlock(gameState.blocks[i], gameState'.blocks[i])
            /\ gameState.blocks[i].destroyed => gameState'.blocks[i].destroyed]_vars

\* a tick has run over a layout with destroyed and standing blocks
C13_Witness ==
  /\ gameState.gameStatus = "playing"
  /\ cues = <<"wallBounce">>
  /\ \E i \in DOMAIN gameState.blocks : gameState.blocks[i].destroyed
  /\ \E i \in DOMAIN gameState.blocks : ~gameState.blocks[i].destroyed

\* the standing blocks that overlap a ball of the ball's radius at position p
overlapping(p) ==
  {i \in DOMAIN gameState.blocks :
     /\ ~gameState.blocks[i].destroyed
     /\ checkCollision(p, ball.radius, gameState.blocks[i].position,
                       gameState.blocks[i].width, gameState.blocks[i].height)}

\* the points of the blocks of hits among blocks 1..i, at multiplier combo
RECURSIVE overlapPoints(_, _, _, _)
overlapPoints(blocks, hits, combo, i) ==
  IF i = 0 THEN 0
  ELSE overlapPoints(blocks, hits, combo, i - 1)
       + (IF i \in hits THEN calculateScore(blocks[i].points, combo) ELSE 0)

\* C14: a tick destroys every standing block that overlaps the ball at its
\* position after integration and paddle deflection, scores each of them
\* once, plays one hit and spawns one burst of particles per block, and
\* leaves every other block as it was.
C14_AllOverlapsResolved ==
  [][probeTick =>
       LET hits == overlapping(tickBall.position)
       IN  /\ Len(gameState'.blocks) = Len(gameState.blocks)
           /\ \A i \in DOMAIN gameState.blocks :
                gameState'.blocks[i] =
                  IF i \in hits THEN [gameState.blocks[i] EXCEPT !.destroyed = TRUE]
                                ELSE gameState.blocks[i]
           /\ gameState'.score = gameState.score
                + overlapPoints(gameState.blocks, hits, comboMultiplier, Len(gameState.blocks))
           /\ count(cues', "blockHit") = Cardinality(hits)
           /\ \A c \in 0..(PaletteSize - 1) :
                Cardinality({k \in DOMAIN gameState'.particles :
                               gameState'.particles[k].color = c})
                  = Cardinality({k \in DOMAIN gameState.particles :
                                   /\ gameState.particles[k].color = c
                                   /\ gameState.particles[k].life > deltaTime})
                    + ParticleCount * Cardinality({i \in hits : gameState.blocks[i].color = c})]_vars

\* one tick has destroyed two blocks next to a block that was destroyed
\* before, and has spawned two bursts
C14_Witness ==
  /\ ticks = 1
  /\ count(cues, "blockHit") = 2
  /\ Len(gameState.particles) = 2 * ParticleCount
  /\ Cardinality({i \in DOMAIN gameState.blocks : gameState.blocks[i].destroyed}) = 4

\* C15: at every canvas width whose column count floor((w - 20) / 48) is zero
\* or negative createBlocks returns the empty list, and a tick of a level
\* with the empty layout sets levelComplete and leaves the score as it was.
C15_EmptyLayout ==
  /\ \A w \in 0..100, lvl \in 1..(MaxLevel + 1) :
       (w - 20) \div (45 + 3) <= 0 => createBlocks(w, lvl) = <<>>
  /\ [][(gameState.gameStatus = "playing" /\ gameState.blocks = <<>> /\ ticks' # ticks) =>
          /\ gameState'.gameStatus = "levelComplete"
          /\ gameState'.blocks = <<>>
          /\ gameState'.score = gameState.score]_vars

\* the second level of a canvas without columns is complete after its first
\* tick, with no score
C15_Witness ==
  /\ gameState.gameStatus = "levelComplete"
  /\ gameState.blocks = <<>>
  /\ count(cues, "levelComplete") = 1
  /\ gameState.level = 2
  /\ gameState.score = 0
  /\ ticks = 2

C17_PointerIgnored ==
  [][\A mouseX \in PointerXs :
       (gameState.gameStatus # "playing" /\ updatePaddlePosition(mouseX)) =>
         UNCHANGED <<gameState, ball, paddle, comboMultiplier, comboTimer, timers,
                     gameStats>>]_vars

\* the game is over with the paddle where the last move during play left it
C17_Witness ==
  /\ gameState.gameStatus = "gameOver"
  /\ paddle.position.x = 0
  /\ cues = <<>>

\* C18: on a canvas at least two radii wide the ball that updateBallPosition
\* returns has radius <= x <= canvasWidth - radius and y >= radius; a ball
\* whose integrated y is above radius, the bottom edge included, keeps that y
\* and its velocity.y; and the ball's x is in that interval after every tick.
C18_BallInsideWalls ==
  /\ [][probeUpdateBallPosition =>
          LET ny == ball.position.y + ball.velocity.y * deltaTime
          IN  /\ width * PX >= 2 * ball.radius =>
                   /\ ball'.position.x >= ball.radius
                   /\ ball'.position.x <= width * PX - ball.radius
                   /\ ball'.position.y >= ball.radius
              /\ ny > ball.radius =>
                   /\ ball'.position.y = ny
                   /\ ball'.velocity.y = ball.velocity.y]_vars
  /\ [][(probeTick /\ width * PX >= 2 * ball.radius) =>
          /\ ball'.position.x >= ball.radius
          /\ ball'.position.x <= width * PX - ball.radius]_vars

\* updateBallPosition has put a ball that left through the right wall and
\* the bottom edge back at the wall, and has left it below the bottom edge
C18_Witness ==
  /\ ticks = 1
  /\ Len(ball.trail) = 1
  /\ ball.trail[1].x > width * PX - ball.radius
  /\ ball.position.x = width * PX - ball.radius
  /\ ball.velocity.x < 0
  /\ ball.position.y > height * PX
  /\ ball.velocity.y > 0

\* |deltaX / (rectWidth/2 + r)| = |deltaY / (rectHeight/2 + r)| for a ball at
\* p and a block, multiplied out
tied(p, r, block) ==
  Abs(2 * p.x - 2 * block.position.x - block.width) * (block.height + 2 * r)
    = Abs(2 * p.y - 2 * block.position.y - block.height) * (block.width + 2 * r)

\* C19 as stated: when the two normalized offsets are equal in magnitude,
\* getCollisionSide returns left or right.
C19_TieIsHorizontal ==
  [][\A i \in DOMAIN gameState.blocks :
       (probeGetCollisionSide(i) /\ tied(ball.position, ball.radius, gameState.blocks[i])) =>
         cues'[1] \in {"left", "right"}]_vars

\* C19, amended: when the two normalized offsets are equal in magnitude,
\* getCollisionSide returns bottom if the ball's centre is below the block's
\* centre and top otherwise, never left or right.
C19_TieIsVertical ==
  [][\A i \in DOMAIN gameState.blocks :
       (probeGetCollisionSide(i) /\ tied(ball.position, ball.radius, gameState.blocks[i])) =>
         cues'[1] = IF 2 * ball.position.y > 2 * gameState.blocks[i].position.y
                                              + gameState.blocks[i].height
                    THEN "bottom" ELSE "top"]_vars

\* getCollisionSide has answered bottom for a ball that overlaps a block's
\* corner on the block's diagonal, right of and below its centre
C19_Witness ==
  /\ ticks = 1
  /\ cues = <<"bottom">>
  /\ \E i \in DOMAIN gameState.blocks :
       /\ tied(ball.position, ball.radius, gameState.blocks[i])
       /\ checkCollision(ball.position, ball.radius, gameState.blocks[i].position,
                         gameState.blocks[i].width, gameState.blocks[i].height)
       /\ ball.position.x > gameState.blocks[i].position.x + gameState.blocks[i].width
       /\ ball.position.y > gameState.blocks[i].position.y + gameState.blocks[i].height

\* C20: getCollisionSide returns one of top, bottom, left and right, and a
\* tick that hits one block negates velocity.x and keeps velocity.y if the
\* side of that block is left or right, and negates velocity.y and keeps
\* velocity.x if it is top or bottom.
C20_SideFlipsAxis ==
  /\ [][\A i \in DOMAIN gameState.blocks :
          probeGetCollisionSide(i) =>
            /\ Len(cues') = 1
            /\ cues'[1] \in {"top", "bottom", "left", "right"}]_vars
  /\ [][probeTick =>
          \A i \in DOMAIN gameState.blocks :
            (overlapping(tickBall.position) = {i} /\ ~ballOut) =>
              LET side == getCollisionSide(tickBall.position, ball.radius,
                                           gameState.blocks[i].position,
                                           gameState.blocks[i].width,
                                           gameState.blocks[i].height)
                  v == tickBall.velocity
              IN  ball'.velocity =
                    IF side \in {"left", "right"}
                    THEN [x |-> -v.x, y |-> v.y]
                    ELSE [x |-> v.x, y |-> -v.y]]_vars

\* a tick away from the walls has hit one block from the side: the ball has
\* moved on along x against its new velocity.x and along y with its velocity.y
C20_Witness ==
  /\ ticks = 1
  /\ count(cues, "blockHit") = 1
  /\ count(cues, "wallBounce") = 0
  /\ Len(ball.trail) = 1
  /\ (ball.position.x - ball.trail[1].x) * ball.velocity.x < 0
  /\ (ball.position.y - ball.trail[1].y) * ball.velocity.y > 0

\* C21: handlePaddleCollision returns a ball that does not overlap the paddle
\* as it is; it returns a ball that overlaps with velocity.y <= 0, the same x,
\* y = paddle.y - radius - 1 and all else but velocity.x the same, and that
\* ball does not overlap the paddle, so that a second call returns it as it is.
C21_PaddleDeflect ==
  [][probeHandlePaddleCollision =>
       IF ~checkCollision(ball.position, ball.radius, paddle.position,
                          paddle.width, paddle.height)
       THEN ball' = ball
       ELSE /\ ball'.velocity.y <= 0
            /\ ball'.position.x = ball.position.x
            /\ ball'.position.y = paddle.position.y - ball.radius - 1 * PX
            /\ ball'.radius = ball.radius
            /\ ball'.trail = ball.trail
            /\ ~checkCollision(ball'.position, ball'.radius, paddle.position,
                               paddle.width, paddle.height)
            /\ handlePaddleCollision(ball', paddle) = ball']_vars

\* a ball that had sunk into the paddle has been lifted above it and sent up
C21_Witness ==
  /\ ticks = 1
  /\ cues = <<>>
  /\ ball.trail = <<>>
  /\ ball.position.y = paddle.position.y - ball.radius - 1 * PX
  /\ ball.position.x > paddle.position.x
  /\ ball.position.x < paddle.position.x + paddle.width
  /\ ball.velocity.y < 0

\* C22: whenever handlePaddleCollision deflects the ball, the hit position
\* u = (ball.x - paddle.x) / paddle.width lies in [0, 1], that is, the ball's
\* centre lies between the paddle's ends (and the launch angle within 54
\* degrees of the vertical).
C22_HitPositionInUnitInterval ==
  [][(/\ probeHandlePaddleCollision
      /\ checkCollision(ball.position, ball.radius, paddle.position,
                        paddle.width, paddle.height))
       => /\ 0 <= ball.position.x - paddle.position.x
          /\ ball.position.x - paddle.position.x <= paddle.width]_vars

\* C23: a ball that overlaps the paddle with its centre over the paddle's
\* centre leaves with velocity.x = 0 and velocity.y = -speed, speed being the
\* length of the incoming velocity (to the unit of the model), whatever the
\* incoming velocity.
C23_CentreHitGoesStraightUp ==
  [][(/\ probeHandlePaddleCollision
      /\ checkCollision(ball.position, ball.radius, paddle.position,
                        paddle.width, paddle.height)
      /\ 2 * (ball.position.x - paddle.position.x) = paddle.width)
       => LET speed2 == ball.velocity.x * ball.velocity.x
                          + ball.velocity.y * ball.velocity.y
              up == -ball'.velocity.y
          IN  /\ ball'.velocity.x = 0
              /\ up >= 0
              /\ up * up <= speed2
              /\ speed2 < (up + 1) * (up + 1)]_vars

\* a ball that came in aslant over the paddle's centre has left straight up
C23_Witness ==
  /\ ticks = 1
  /\ cues = <<>>
  /\ ball.trail = <<>>
  /\ ball.position.y = paddle.position.y - ball.radius - 1 * PX
  /\ 2 * (ball.position.x - paddle.position.x) = paddle.width
  /\ ball.velocity.x = 0
  /\ ball.velocity.y < -(BaseSpeed + SpeedYIncrement)

\* the loss of life of a particle in a step of deltaTime: 2 * dt, in 1/LifeOne
lifeLoss == (2 * deltaTime * LifeOne) \div UnitHz

\* C24: for dt > 0 updateParticles returns, in their order, the particles
\* whose life exceeds 2 * dt, each with its life smaller by 2 * dt and
\* otherwise as it was; it never returns a particle with life <= 0; and every
\* particle in GameState.particles after a tick has life > 0.
C24_ParticlesAgeAndEnd ==
  /\ [][(probeUpdateParticles /\ deltaTime > 0) =>
          LET old == gameState.particles
              new == gameState'.particles
              kept(q) == q.life > lifeLoss
              survivors == SelectSeq(old, kept)
          IN  /\ Len(new) = Len(survivors)
              /\ \A j \in DOMAIN new :
                   /\ new[j].life < survivors[j].life
                   /\ new[j].life = survivors[j].life - lifeLoss
                   /\ new[j] = [survivors[j] EXCEPT !.life = new[j].life]]_vars
  /\ [][probeUpdateParticles =>
          \A j \in DOMAIN gameState'.particles : gameState'.particles[j].life > 0]_vars
  /\ [][probeTick =>
          \A j \in DOMAIN gameState'.particles : gameState'.particles[j].life > 0]_vars

\* a call has dropped the particles whose life had run out, one of them with
\* exactly the life the step took, and has aged the two that remain
C24_Witness ==
  /\ ticks = 1
  /\ cues = <<>>
  /\ ball.trail = <<>>
  /\ elapsed = MaxStep
  /\ Len(gameState.particles) = 2
  /\ gameState.particles[1].id = 0
  /\ gameState.particles[1].life = 1
  /\ gameState.particles[2].id = 2
  /\ gameState.particles[2].life = LifeOne - lifeLoss

\* C25: the high score is the value of the stored item at startup, 0 when
\* there is none; it never decreases; it becomes the reported score exactly
\* when that score is strictly higher, so that it is the maximum of the
\* startup value and the scores reported; and the stored item changes only
\* then, to the decimal form of the same value, so that a reload finds it.
C25_HighScore ==
  /\ [](highScore = loadHighScore(localStorage))
  /\ [](localStorage = Absent => highScore = 0)
  /\ [](highScore >= gameStats.score)
  /\ [][highScore' >= highScore]_vars
  /\ [][highScore' = Max(highScore, gameStats'.score)]_vars
  /\ [][(highScore' # highScore \/ localStorage' # localStorage) =>
          /\ gameStats'.score > highScore
          /\ highScore' = gameStats'.score
          /\ localStorage'.present
          /\ parseInt(localStorage'.value) = highScore'
          /\ localStorage'.value[1] # 0]_vars

\* a score of three digits has become the high score and is stored
C25_Witness ==
  /\ gameStats.score = 105
  /\ highScore = 105
  /\ localStorage = [present |-> TRUE, value |-> <<1, 0, 5>>]

\* the distance along one axis from c to the nearest point of [lo, hi]
axisDistance(c, lo, hi) == IF c < lo THEN lo - c ELSE IF c > hi THEN c - hi ELSE 0

\* C26: checkCollision is true when the circle's centre lies inside the
\* rectangle, false when the circle's bounding box does not meet the
\* rectangle, and true exactly when the squared distance from the centre to
\* the nearest point of the rectangle is at most the squared radius.
C26_CheckCollision ==
  [][probeCheckCollision =>
       LET c == ball.position
           r == ball.radius
           left == paddle.position.x
           right == paddle.position.x + paddle.width
           top == paddle.position.y
           bottom == paddle.position.y + paddle.height
           dx == axisDistance(c.x, left, right)
           dy == axisDistance(c.y, top, bottom)
           inside == left <= c.x /\ c.x <= right /\ top <= c.y /\ c.y <= bottom
           boxApart == \/ c.x + r < left \/ c.x - r > right
                       \/ c.y + r < top \/ c.y - r > bottom
       IN  /\ cues' \in {<<"overlap">>, <<"apart">>}
           /\ inside => cues' = <<"overlap">>
           /\ boxApart => cues' = <<"apart">>
           /\ cues' = <<"overlap">> <=> dx * dx + dy * dy <= r * r]_vars

\* a circle whose centre lies outside the rectangle's corner, at a distance
\* of exactly its radius along neither axis, has been found to overlap
C26_Witness ==
  /\ ticks = 1
  /\ cues = <<"overlap">>
  /\ ball.position.x < paddle.position.x
  /\ ball.position.y < paddle.position.y
  /\ ball.position.x > paddle.position.x - ball.radius
  /\ ball.position.y > paddle.position.y - ball.radius

\* C27: under every interleaving of acknowledgments and 100 ms callbacks a
\* completed level raises the level once, that is, never while the callback
\* of an earlier acknowledgment is pending, and queues one initialization;
\* and a callback never runs while the game is playing or paused.
C27_OneAdvancePerLevel ==
  /\ [][(gameState.gameStatus = "levelComplete" /\ gameState'.level # gameState.level) =>
          /\ timers = <<>>
          /\ gameState'.level = gameState.level + 1
          /\ Len(timers') = 1]_vars
  /\ [][Len(timers') < Len(timers) =>
          gameState.gameStatus \notin {"playing", "paused"}]_vars

\* the blocks a tick hits whose side, seen from the ball's position after
\* integration and paddle deflection, is one of sides
hitsOn(sides) ==
  {i \in overlapping(tickBall.position) :
     getCollisionSide(tickBall.position, ball.radius, gameState.blocks[i].position,
                      gameState.blocks[i].width, gameState.blocks[i].height) \in sides}

\* C28: a tick that hits h blocks on a left or right side and v blocks on a
\* top or bottom side leaves the ball with velocity.x = (-1)^h * vx and
\* velocity.y = (-1)^v * vy, (vx, vy) being the velocity after integration
\* and paddle deflection, so that two hits along one axis cancel; the block
\* hits do not move the ball.
C28_FlipsCompose ==
  [][(probeTick /\ ~ballOut) =>
       LET h == Cardinality(hitsOn({"left", "right"}))
           v == Cardinality(hitsOn({"top", "bottom"}))
       IN  /\ h + v = Cardinality(overlapping(tickBall.position))
           /\ ball'.velocity.x = IF h % 2 = 0 THEN tickBall.velocity.x
                                 ELSE -tickBall.velocity.x
           /\ ball'.velocity.y = IF v % 2 = 0 THEN tickBall.velocity.y
                                 ELSE -tickBall.velocity.y
           /\ ball'.position = tickBall.position]_vars

\* a tick away from the walls has hit two blocks and the ball flies on as it
\* came
C28_Witness ==
  /\ ticks = 1
  /\ count(cues, "blockHit") = 2
  /\ count(cues, "wallBounce") = 0
  /\ count(cues, "paddleHit") = 0
  /\ Len(ball.trail) = 1
  /\ (ball.position.x - ball.trail[1].x) * ball.velocity.x > 0
  /\ (ball.position.y - ball.trail[1].y) * ball.velocity.y > 0

\* the sum over the blocks 1..i in hits of floor(points * m / unit)
RECURSIVE floorSum(_, _, _, _, _)
floorSum(blocks, hits, m, unit, i) ==
  IF i = 0 THEN 0
  ELSE floorSum(blocks, hits, m, unit, i - 1)
       + (IF i \in hits THEN (blocks[i].points * m) \div unit ELSE 0)

\* C29: the score a tick gains is the sum, over the blocks it destroys, of
\* floor(points * m), m being the multiplier at the start of the tick; it is
\* a non-negative integer; at multiplier 1.0, as after the start of a level,
\* it is the sum of the points; and calculateScore(100, 2.0) = 200 and
\* calculateScore(55, 1.3) = 71.
C29_ScoreGain ==
  /\ calculateScore(100, 2 * ComboOne) = 200
  /\ calculateScore(55, (13 * ComboOne) \div 10) = 71
  /\ [][probeTick =>
          LET hits == overlapping(tickBall.position)
              n == Len(gameState.blocks)
              gain == gameState'.score - gameState.score
          IN  /\ gain = floorSum(gameState.blocks, hits, comboMultiplier, ComboOne, n)
              /\ gain \in Nat
              /\ comboMultiplier = ComboOne =>
                   gain = floorSum(gameState.blocks, hits, 1, 1, n)]_vars

\* a tick at a multiplier of 2.95 has destroyed two blocks of a field on
\* which nothing had been scored, and the floors have left a score that is
\* no multiple of 10 as the points are
C29_Witness ==
  /\ ticks = 1
  /\ count(cues, "blockHit") = 2
  /\ comboMultiplier = ComboMax
  /\ Cardinality({i \in DOMAIN gameState.blocks : gameState.blocks[i].destroyed}) = 2
  /\ gameState.score % 10 # 0

\* C30: the end of a touch during which the finger was at some moment 20
\* pixels or more to the left or right of where it came down leaves
\* gameStatus as it was.
C30_DragLeavesStatus ==
  [][(touchEnd /\ farthest >= 20) =>
       gameState'.gameStatus = gameState.gameStatus]_vars

====
